---- MODULE Spec2Model ----
(***************************************************************************)
(* The CONTIWEB delivery-schedule dashboard (src/streamlit_app.py) as a    *)
(* state machine.  One run of main() is a render: it loads the delivery    *)
(* table and the three summary tables through the memoized loaders, reads  *)
(* the sidebar widgets, filters the table and draws the five tabs.  The    *)
(* memoization of the loaders and of conn.query is shared by all renders.  *)
(*                                                                         *)
(* ship_date is a calendar date, written as the integer yyyymmdd, so that  *)
(* the order of the integers is the order of the dates.  A missing value   *)
(* (NULL, None, NaN, NaT) of a text column is None and of ship_date NaT.   *)
(***************************************************************************)
EXTENDS Integers, Sequences, FiniteSets, TLC

VARIABLES
    now,          \* the clock, in seconds
    db,           \* the rows of delivery_schedule, in the order of the query
    queryCache,   \* what conn.query keeps, by query
    dataCache,    \* what st.cache_data keeps of load_delivery_data
    statsCache,   \* what st.cache_data keeps of load_summary_stats
    pc,           \* where the running main() is
    df,           \* main's df
    dfAsOf,       \* when the database was read for df
    returned,     \* the tables as the loaders returned them to this run
    stats,        \* main's status_stats, customer_stats, monthly_stats
    sel,          \* the widget values of this run
    filtered_df,  \* main's filtered_df
    ui,           \* what this run has put on the page
    err,          \* the exception that ended this run, if any
    fetchLog      \* the times of the last two delivery queries sent to the database

vars == <<now, db, queryCache, dataCache, statsCache, pc, df, dfAsOf, returned,
          stats, sel, filtered_df, ui, err, fetchLog>>

(***************************************************************************)
(* Bounds of the model.                                                    *)
(***************************************************************************)
MaxRows == 2
MaxDate == 2
MaxTime == 900
TimeStep == 150

(***************************************************************************)
(* Program constants.                                                      *)
(***************************************************************************)
CacheTtl == 300
QueryTtl == 600

None == "None"
NaT == 0
All == "All"

Statuses == {"In stock", "Released", "Planned", "Created"}
Customers == {"ACME", "Borg"}
MrpGroups == {"M1", "M2"}
Countries == {"NL", "DE"}

\* The k-th ship date of the model: the 10th and the 20th of successive months.
DateOf(k) == 20250100 + 100 * ((k - 1) \div 2) + (IF k % 2 = 1 THEN 10 ELSE 20)
Dates == {DateOf(k) : k \in 1..MaxDate}

\* EXTRACT(YEAR FROM ship_date), EXTRACT(MONTH FROM ship_date)
Year(d) == d \div 10000
Month(d) == (d \div 100) % 100

(***************************************************************************)
(* Rows of delivery_schedule, by the columns main() reads.  The rows of    *)
(* the model differ from BaseRow in at most one column; a table of the     *)
(* model is a sequence of them in the order of the query, or such a table  *)
(* with no ship_date filled in.                                            *)
(***************************************************************************)
BaseRow == [status |-> "In stock", customer |-> "ACME", mrp_group |-> "M1",
            country |-> "NL", ship_date |-> DateOf(1)]
AllRows == [status : Statuses \cup {None}, customer : Customers \cup {None},
            mrp_group : MrpGroups \cup {None}, country : Countries \cup {None},
            ship_date : Dates \cup {NaT}]
Differences(r) == Cardinality({c \in DOMAIN r : r[c] # BaseRow[c]})
Rows == {r \in AllRows : Differences(r) <= 1}

\* ORDER BY ds.ship_date, ds.customer: ascending, NULLs last.
DateKey(d) == IF d = NaT THEN DateOf(MaxDate) + 1 ELSE d
CustomerKey(c) == IF c = None THEN 3 ELSE IF c = "ACME" THEN 1 ELSE 2
InOrder(a, b) ==
    \/ DateKey(a.ship_date) < DateKey(b.ship_date)
    \/ /\ DateKey(a.ship_date) = DateKey(b.ship_date)
       /\ CustomerKey(a.customer) <= CustomerKey(b.customer)
Sorted(s) == \A i \in 1..(Len(s) - 1) : InOrder(s[i], s[i + 1])
RowSeqs == UNION {[1..n -> Rows] : n \in 0..MaxRows}
Undated(s) == [i \in 1..Len(s) |-> [s[i] EXCEPT !.ship_date = NaT]]
Contents == {s \in RowSeqs \cup {Undated(x) : x \in RowSeqs} : Sorted(s)}

(***************************************************************************)
(* Data frames: the column names and the rows.                             *)
(***************************************************************************)
DeliveryCols == {"wbs_element", "customer", "country", "status", "description",
                 "ship_date", "mrp_group", "ts_text", "mrp_group_description"}
StatusCols == {"status", "project_count", "with_ship_date"}
CustomerCols == {"customer", "country", "total_projects", "next_delivery",
                 "last_delivery"}
MonthlyCols == {"year", "month", "deliveries_count"}

\* pd.DataFrame()
EmptyFrame == [cols |-> {}, rows |-> <<>>]
EmptyStatFrame == [cols |-> {}, rows |-> {}]
\* DataFrame.empty
IsEmpty(t) == t.cols = {} \/ t.rows = <<>>
IsEmptyStat(t) == t.cols = {} \/ t.rows = {}

Count(s, P(_)) == Cardinality({i \in 1..Len(s) : P(s[i])})
Dated(s) == SelectSeq(s, LAMBDA r : r.ship_date # NaT)
RECURSIVE SetMin(_)
SetMin(S) == IF \A x \in S : \A y \in S : x <= y THEN CHOOSE x \in S : TRUE
             ELSE SetMin(S \ {CHOOSE x \in S : \E y \in S : y < x})
RECURSIVE SetMax(_)
SetMax(S) == IF \A x \in S : \A y \in S : x >= y THEN CHOOSE x \in S : TRUE
             ELSE SetMax(S \ {CHOOSE x \in S : \E y \in S : y > x})
Values(s, c) == {s[i][c] : i \in 1..Len(s)}

\* The delivery query: every row, ordered.
DeliveryQuery(rows) == [cols |-> DeliveryCols, rows |-> rows]
\* GROUP BY status
StatusQuery(rows) ==
    [cols |-> StatusCols,
     rows |-> {[status |-> s,
                project_count |-> Count(rows, LAMBDA r : r.status = s),
                with_ship_date |-> Count(rows, LAMBDA r : r.status = s /\ r.ship_date # NaT)]
               : s \in Values(rows, "status")}]
\* WHERE ship_date IS NOT NULL GROUP BY customer, country ... LIMIT 10
\* (a table of the model has fewer than 10 rows, so the limit cuts nothing)
GroupDates(rows, c, k) ==
    {rows[i].ship_date : i \in {j \in 1..Len(rows) :
        rows[j].ship_date # NaT /\ rows[j].customer = c /\ rows[j].country = k}}
CustomerQuery(rows) ==
    [cols |-> CustomerCols,
     rows |-> {[customer |-> g[1], country |-> g[2],
                total_projects |-> Count(Dated(rows),
                    LAMBDA r : r.customer = g[1] /\ r.country = g[2]),
                next_delivery |-> SetMin(GroupDates(rows, g[1], g[2])),
                last_delivery |-> SetMax(GroupDates(rows, g[1], g[2]))]
               : g \in {<<Dated(rows)[i].customer, Dated(rows)[i].country>> :
                        i \in 1..Len(Dated(rows))}}]
\* WHERE ship_date IS NOT NULL GROUP BY year, month
MonthlyQuery(rows) ==
    [cols |-> MonthlyCols,
     rows |-> {[year |-> g[1], month |-> g[2],
                deliveries_count |-> Count(Dated(rows),
                    LAMBDA r : Year(r.ship_date) = g[1] /\ Month(r.ship_date) = g[2])]
               : g \in {<<Year(Dated(rows)[i].ship_date), Month(Dated(rows)[i].ship_date)>> :
                        i \in 1..Len(Dated(rows))}}]

(***************************************************************************)
(* The memoization.  st.cache_data keeps what a loader returned, and       *)
(* replays the st.error / st.info calls the loader made, for CacheTtl      *)
(* seconds; conn.query(..., ttl="10m") keeps a query's result for QueryTtl *)
(* seconds.  asOf is the time the database was read for the value.         *)
(***************************************************************************)
QueryNames == {"delivery", "status", "customer", "monthly"}
StatsOrder == <<"status", "customer", "monthly">>

NoQueryEntry == [full |-> FALSE, val |-> EmptyStatFrame, at |-> 0]
NoDataEntry == [full |-> FALSE, val |-> EmptyFrame, at |-> 0, asOf |-> 0, failed |-> FALSE]
EmptyStats == [status_stats |-> EmptyStatFrame, customer_stats |-> EmptyStatFrame,
               monthly_stats |-> EmptyStatFrame]
NoStatsEntry == [full |-> FALSE, val |-> EmptyStats, at |-> 0, failed |-> FALSE]

QueryFresh(q) == queryCache[q].full /\ now < queryCache[q].at + QueryTtl
DataFresh == dataCache.full /\ now < dataCache.at + CacheTtl
StatsFresh == statsCache.full /\ now < statsCache.at + CacheTtl

\* What the database answers to query q now.
Answer(q) ==
    CASE q = "delivery" -> DeliveryQuery(db)
      [] q = "status" -> StatusQuery(db)
      [] q = "customer" -> CustomerQuery(db)
      [] q = "monthly" -> MonthlyQuery(db)
\* conn.query of a summary query: the kept result, or the database's answer.
QueryValue(q) == IF QueryFresh(q) THEN queryCache[q].val ELSE Answer(q)

\* load_delivery_data's body asking the database again after a failure, and
\* returning what the second try answers.
DeliveryBodyRetrying(fails) ==
    IF queryCache["delivery"].full /\ now < queryCache["delivery"].at + QueryTtl
    THEN queryCache["delivery"].val
    ELSE Answer("delivery")
\* load_delivery_data's body with the queries in `fails` raising when run.
DeliveryRaises(fails) == ~QueryFresh("delivery") /\ "delivery" \in fails
DeliveryBody(fails) ==
    IF DeliveryRaises(fails) THEN EmptyFrame
    ELSE IF QueryFresh("delivery") THEN queryCache["delivery"].val
    ELSE Answer("delivery")
DeliveryAsOf == IF QueryFresh("delivery") THEN queryCache["delivery"].at ELSE now

\* load_summary_stats's body: the three queries in turn, the first that raises
\* ends the try block.
StatRaises(q, fails) == ~QueryFresh(q) /\ q \in fails
StatReached(i, fails) == \A j \in 1..(i - 1) : ~StatRaises(StatsOrder[j], fails)
StatsFailed(fails) == \E i \in 1..3 : StatRaises(StatsOrder[i], fails)
StatsBody(fails) ==
    IF StatsFailed(fails) THEN EmptyStats
    ELSE [status_stats |-> QueryValue("status"),
          customer_stats |-> QueryValue("customer"),
          monthly_stats |-> QueryValue("monthly")]
\* The queries that are sent to the database when load_delivery_data's body
\* (runData) and load_summary_stats's body (runStats) run.
Sent(fails, runData, runStats) ==
    {q \in QueryNames : /\ ~QueryFresh(q)
                        /\ IF q = "delivery" THEN runData
                           ELSE /\ runStats
                                /\ \E i \in 1..3 : StatsOrder[i] = q /\ StatReached(i, fails)}
\* Those of them that return, and whose result conn.query keeps.
Stored(fails, runData, runStats) == Sent(fails, runData, runStats) \ fails
\* The log of delivery queries, the last two kept.
Logged(log, t) == IF Len(log) < 2 THEN Append(log, t) ELSE <<log[2], t>>

ErrDb == "error: Database connection failed"
InfoDb == "info: Make sure your PostgreSQL database is running"
ErrStats == "error: Failed to load summary stats"
WarnNoData == "warning: No data available. Please check your database connection."
InfoNoMatch == "info: No projects match the selected filters."
InfoNoUpcoming == "info: No deliveries scheduled in the next 30 days."

NoSel == [status |-> All, customer |-> All, mrp_group |-> All, country |-> All,
          bound |-> FALSE, date_range |-> <<>>]
NoMetrics == [total_projects |-> 0, in_stock |-> 0, released |-> 0, planned |-> 0]
NoUi == [msgs |-> {}, shown |-> {}, metrics |-> NoMetrics,
         status_pie |-> {}, monthly_bar |-> {}]
NoErr == "none"

Init ==
    /\ now = 0
    /\ db \in Contents
    /\ queryCache = [q \in QueryNames |-> NoQueryEntry]
    /\ dataCache = NoDataEntry
    /\ statsCache = NoStatsEntry
    /\ pc = "idle"
    /\ df = EmptyFrame
    /\ dfAsOf = 0
    /\ returned = [df |-> EmptyFrame, stats |-> EmptyStats]
    /\ stats = EmptyStats
    /\ sel = NoSel
    /\ filtered_df = EmptyFrame
    /\ ui = NoUi
    /\ err = NoErr
    /\ fetchLog = <<>>

(***************************************************************************)
(* main, lines 209-216: both loaders, then the check for an empty table.   *)
(***************************************************************************)
LoadData ==
    /\ pc = "idle"
    /\ \E fails \in SUBSET QueryNames :
        LET newData == IF DataFresh THEN dataCache
                       ELSE [full |-> TRUE, val |-> DeliveryBody(fails), at |-> now,
                             asOf |-> DeliveryAsOf, failed |-> DeliveryRaises(fails)]
            newStats == IF StatsFresh THEN statsCache
                        ELSE [full |-> TRUE, val |-> StatsBody(fails), at |-> now,
                              failed |-> StatsFailed(fails)]
            stored == Stored(fails, ~DataFresh, ~StatsFresh)
            sent == Sent(fails, ~DataFresh, ~StatsFresh)
            msgs == (IF newData.failed THEN {ErrDb, InfoDb} ELSE {})
                    \cup (IF newStats.failed THEN {ErrStats} ELSE {})
        IN  /\ dataCache' = newData
            /\ statsCache' = newStats
            /\ queryCache' = [q \in QueryNames |->
                    IF q \in stored
                    THEN [full |-> TRUE,
                          val |-> Answer(q),
                          at |-> now]
                    ELSE queryCache[q]]
            /\ fetchLog' = IF "delivery" \in sent THEN Logged(fetchLog, now)
                           ELSE fetchLog
            /\ df' = newData.val
            /\ dfAsOf' = newData.asOf
            /\ stats' = newStats.val
            /\ returned' = [df |-> newData.val, stats |-> newStats.val]
            /\ IF IsEmpty(newData.val)
               THEN /\ ui' = [ui EXCEPT !.msgs = msgs \cup {WarnNoData}]
                    /\ pc' = "done"
               ELSE /\ ui' = [ui EXCEPT !.msgs = msgs]
                    /\ pc' = "loaded"
    /\ UNCHANGED <<now, db, sel, filtered_df, err>>

(***************************************************************************)
(* main, lines 218-247: the sidebar widgets.                               *)
(***************************************************************************)
\* ['All'] + sorted(df[c].dropna().unique().tolist())
Options(t, c) == {All} \cup (Values(t.rows, c) \ {None})
\* 'ship_date' in df.columns and not df['ship_date'].isna().all()
HasDateWidget(t) == "ship_date" \in t.cols /\ Dated(t.rows) # <<>>
\* df['ship_date'].min(), df['ship_date'].max(): missing values are skipped
MinDate(t) == SetMin(Values(Dated(t.rows), "ship_date"))
MaxShipDate(t) == SetMax(Values(Dated(t.rows), "ship_date"))
\* value=(min_date, max_date)
DefaultRange(t) == <<MinDate(t), MaxShipDate(t)>>
\* st.sidebar.date_input: no date, a start alone, or a start and an end, each
\* between min_value and max_value
Pickable(t) == {d \in Dates : MinDate(t) <= d /\ d <= MaxShipDate(t)}
DateRanges(t) ==
    {<<>>} \cup {<<a>> : a \in Pickable(t)}
    \cup {p \in Pickable(t) \X Pickable(t) : p[1] <= p[2]}
\* Every value the widgets can hand to one run of main.
Selections(t) ==
    {[status |-> s, customer |-> c, mrp_group |-> m, country |-> k,
      bound |-> HasDateWidget(t), date_range |-> r] :
        s \in Options(t, "status"), c \in Options(t, "customer"),
        m \in Options(t, "mrp_group"), k \in Options(t, "country"),
        r \in IF HasDateWidget(t) THEN DateRanges(t) ELSE {<<>>}}
DefaultSelection(t) ==
    [status |-> All, customer |-> All, mrp_group |-> All, country |-> All,
     bound |-> HasDateWidget(t),
     date_range |-> IF HasDateWidget(t) THEN DefaultRange(t) ELSE <<>>]

(***************************************************************************)
(* main, lines 249-270: the filters.                                       *)
(***************************************************************************)
\* pd.to_datetime of a date: midnight of that day, as yyyymmddHH
ToDatetime(d) == d * 100
\* a comparison with a missing value is False
Ge(a, b) == a # NaT /\ b # NaT /\ ToDatetime(a) >= ToDatetime(b)
Le(a, b) == a # NaT /\ b # NaT /\ ToDatetime(a) <= ToDatetime(b)

\* if selected != 'All': filtered_df = filtered_df[filtered_df[c] == selected]
EqFilter(t, c, v) ==
    IF v # All THEN [t EXCEPT !.rows = SelectSeq(t.rows, LAMBDA r : r[c] = v)] ELSE t
\* DateFilter with the end of the range left out (< for <=).
DateFilterExclusive(t, orig, r) ==
    IF "ship_date" \in orig.cols /\ Len(r) = 2
    THEN [t EXCEPT !.rows = SelectSeq(t.rows,
            LAMBDA x : Ge(x.ship_date, r[1]) /\ Le(x.ship_date, r[2])
                       /\ x.ship_date # r[2])]
    ELSE t
\* DateFilter with the mask shifted by one row: the first row it keeps is lost.
DateFilterShifted(t, orig, r) ==
    IF "ship_date" \in orig.cols /\ Len(r) = 2
    THEN [t EXCEPT !.rows =
            LET kept == SelectSeq(t.rows,
                    LAMBDA x : Ge(x.ship_date, r[1]) /\ Le(x.ship_date, r[2]))
            IN  IF kept = <<>> THEN kept ELSE Tail(kept)]
    ELSE t
\* lines 265-270, with orig the table main loaded
DateFilter(t, orig, r) ==
    IF "ship_date" \in orig.cols /\ Len(r) = 2
    THEN [t EXCEPT !.rows = SelectSeq(t.rows,
            LAMBDA x : Ge(x.ship_date, r[1]) /\ Le(x.ship_date, r[2]))]
    ELSE t
\* The filters joined by | instead of applied in turn: a row is kept when any
\* active filter accepts it.
ApplyFilterAny(t, s) ==
    [t EXCEPT !.rows = SelectSeq(t.rows, LAMBDA x :
        \/ s.status # All /\ x.status = s.status
        \/ s.customer # All /\ x.customer = s.customer
        \/ s.mrp_group # All /\ x.mrp_group = s.mrp_group
        \/ s.country # All /\ x.country = s.country
        \/ Len(s.date_range) = 2 /\ Ge(x.ship_date, s.date_range[1])
                                 /\ Le(x.ship_date, s.date_range[2]))]
\* lines 250-270 on table t with the widget values s
ApplyFilter(t, s) ==
    DateFilter(
        EqFilter(EqFilter(EqFilter(EqFilter(t, "status", s.status),
                                   "customer", s.customer),
                          "mrp_group", s.mrp_group),
                 "country", s.country),
        t, s.date_range)

UnboundDateRange == "UnboundLocalError: date_range"
KeyErrorColumn == "KeyError: a column of the Projects tab is not in the table"

\* date_range is assigned only under the condition of line 238, and line 265
\* reads it whenever the column exists
ReadsUnbound(t, s) == "ship_date" \in t.cols /\ ~s.bound

(***************************************************************************)
(* main, lines 272-472: what the five tabs draw.                           *)
(***************************************************************************)
\* len(filtered_df[filtered_df['status'] == name])
StatusCount(t, name) == Count(t.rows, LAMBDA r : r.status = name)
\* The metrics counted on the loaded table instead of the filtered one.
MetricsUnfiltered(t) ==
    [total_projects |-> Len(df.rows),
     in_stock |-> StatusCount(df, "In stock"),
     released |-> StatusCount(df, "Released"),
     planned |-> StatusCount(df, "Planned")]
Metrics(t) ==
    [total_projects |-> Len(t.rows),
     in_stock |-> StatusCount(t, "In stock"),
     released |-> StatusCount(t, "Released"),
     planned |-> StatusCount(t, "Planned")]

\* create_monthly_deliveries_chart writes the column month_label into the
\* table it is given
WithMonthLabel(m) ==
    [cols |-> m.cols \cup {"month_label"},
     rows |-> {[year |-> r.year, month |-> r.month,
                deliveries_count |-> r.deliveries_count,
                month_label |-> <<r.month, r.year>>] : r \in m.rows}]

\* create_status_pie_chart: values='project_count', names='status'
PieData(st) == {<<r.status, r.project_count>> : r \in st.rows}
\* create_monthly_deliveries_chart: x='month_label', y='deliveries_count'
BarData(m) == {<<<<r.month, r.year>>, r.deliveries_count>> : r \in m.rows}

\* The columns the Projects tab selects.
DisplayCols == {"wbs_element", "customer", "country", "status", "description",
                "ship_date", "mrp_group", "ts_text"}

\* datetime.now().date(): the clock starts on the first ship date of the model
\* and the runs of the model end before that day does.
Today == DateOf(1) + (now \div 86400)
\* Days from the turn of the era to a date, for today + timedelta(days=30).
DaysBefore == <<0, 31, 59, 90, 120, 151, 181, 212, 243, 273, 304, 334>>
Ordinal(d) == Year(d) * 365 + DaysBefore[Month(d)] + (d % 100)
\* lines 408-411: the rows due from today to today + 30 days
Upcoming(t, today) ==
    SelectSeq(t.rows, LAMBDA r :
        /\ r.ship_date # NaT
        /\ Ordinal(r.ship_date) >= Ordinal(today)
        /\ Ordinal(r.ship_date) <= Ordinal(today) + 30)
\* groupby(['mrp_group', 'status']).size().unstack(): rows with a missing key
\* are left out
HeatmapCells(t) ==
    {i \in 1..Len(t.rows) : t.rows[i].mrp_group # None /\ t.rows[i].status # None}

Tab1Shown(st) ==
    {"metrics"}
    \cup (IF ~IsEmptyStat(st.status_stats) THEN {"status_pie"} ELSE {})
    \cup (IF ~IsEmptyStat(st.monthly_stats) THEN {"monthly_bar"} ELSE {})
Tab2Shown(t) == IF ~IsEmpty(t) THEN {"project_table", "csv_download"} ELSE {}
Tab3Shown(t, st) ==
    (IF ~IsEmptyStat(st.customer_stats) THEN {"customer_metrics"} ELSE {})
    \cup (IF ~IsEmpty(t) THEN {"customer_bar"} ELSE {})
Tab4Shown(t, today) ==
    IF ~IsEmpty(t)
    THEN {"timeline_chart"}
         \cup (IF Upcoming(t, today) # <<>> THEN {"upcoming_list"} ELSE {})
    ELSE {}
Tab5Shown(t) ==
    (IF ~IsEmpty(t) /\ "mrp_group" \in t.cols THEN {"mrp_pie"} ELSE {})
    \cup (IF ~IsEmpty(t) THEN {"country_bar"} ELSE {})
    \cup (IF ~IsEmpty(t) /\ "mrp_group" \in t.cols /\ HeatmapCells(t) # {}
          THEN {"heatmap"} ELSE {})
\* The elements drawn from the filtered table.
FromFiltered == {"project_table", "csv_download", "customer_bar", "timeline_chart",
                 "upcoming_list", "mrp_pie", "country_bar", "heatmap"}

\* What the five tabs put on the page for the filtered table f, the summary
\* tables st and the messages so far.
TabsUi(f, st, msgs, today) ==
    [msgs |-> msgs
              \cup (IF IsEmpty(f) THEN {InfoNoMatch} ELSE {})
              \cup (IF ~IsEmpty(f) /\ Upcoming(f, today) = <<>>
                    THEN {InfoNoUpcoming} ELSE {}),
     shown |-> Tab1Shown(st) \cup Tab2Shown(f) \cup Tab3Shown(f, st)
               \cup Tab4Shown(f, today) \cup Tab5Shown(f),
     metrics |-> Metrics(f),
     status_pie |-> PieData(st.status_stats),
     monthly_bar |-> BarData(st.monthly_stats)]
\* The page when the Projects tab raises: the Overview tab alone is drawn.
OverviewUi(f, st, msgs) ==
    [msgs |-> msgs, shown |-> Tab1Shown(st), metrics |-> Metrics(f),
     status_pie |-> PieData(st.status_stats),
     monthly_bar |-> BarData(st.monthly_stats)]

(***************************************************************************)
(* main, lines 218-472, with the widget values s: the filters, then the    *)
(* tabs.  An exception ends the run where it is raised.                    *)
(***************************************************************************)
RenderWith(s) ==
    /\ pc = "loaded"
    /\ sel' = s
    /\ IF ReadsUnbound(df, s)
       THEN /\ pc' = "raised"
            /\ err' = UnboundDateRange
            /\ UNCHANGED <<filtered_df, ui, stats>>
       ELSE \E f \in {ApplyFilter(df, s)} :
                /\ filtered_df' = f
                /\ stats' = IF ~IsEmptyStat(stats.monthly_stats)
                            THEN [stats EXCEPT !.monthly_stats = WithMonthLabel(@)]
                            ELSE stats
                /\ IF ~IsEmpty(f) /\ ~(DisplayCols \subseteq f.cols)
                   THEN \* filtered_df[[...]] of a column the table lacks
                        /\ pc' = "raised"
                        /\ err' = KeyErrorColumn
                        /\ ui' = OverviewUi(f, stats, ui.msgs)
                   ELSE /\ pc' = "done"
                        /\ UNCHANGED err
                        /\ ui' = TabsUi(f, stats, ui.msgs, Today)
    /\ UNCHANGED <<now, db, queryCache, dataCache, statsCache, df, dfAsOf, returned,
                   fetchLog>>

\* One run of main with any values the widgets can hand it.
Render == pc = "loaded" /\ \E s \in Selections(df) : RenderWith(s)

(***************************************************************************)
(* A page load or a widget change runs main again, from its first line:    *)
(* nothing of the last run is kept but the memoized values.                *)
(***************************************************************************)
Rerun ==
    /\ pc \in {"done", "raised"}
    /\ pc' = "idle"
    /\ df' = EmptyFrame
    /\ dfAsOf' = 0
    /\ returned' = [df |-> EmptyFrame, stats |-> EmptyStats]
    /\ stats' = EmptyStats
    /\ sel' = NoSel
    /\ filtered_df' = EmptyFrame
    /\ ui' = NoUi
    /\ err' = NoErr
    /\ UNCHANGED <<now, db, queryCache, dataCache, statsCache, fetchLog>>

Next == LoadData \/ Render \/ Rerun

Spec == Init /\ [][Next]_vars

(***************************************************************************)
(* The renders over time: the clock advances and the delivery_schedule     *)
(* table is rewritten between renders.                                     *)
(***************************************************************************)
Tick ==
    /\ pc = "idle"
    /\ now + TimeStep <= MaxTime
    /\ now' = now + TimeStep
    /\ UNCHANGED <<db, queryCache, dataCache, statsCache, pc, df, dfAsOf, returned,
                   stats, sel, filtered_df, ui, err, fetchLog>>

\* The tables the database holds in the runs over time.
TimedContents == {<<>>, <<BaseRow>>, <<[BaseRow EXCEPT !.status = "Released"]>>}

DbWrite ==
    /\ pc = "idle"
    /\ db' \in TimedContents \ {db}
    /\ UNCHANGED <<now, queryCache, dataCache, statsCache, pc, df, dfAsOf, returned,
                   stats, sel, filtered_df, ui, err, fetchLog>>

\* One run of main with the widgets left as they are drawn first.
RenderDefault == RenderWith(DefaultSelection(df))

InitTimed == Init /\ db \in TimedContents

NextTimed == LoadData \/ RenderDefault \/ Rerun \/ Tick \/ DbWrite

SpecTimed == InitTimed /\ [][NextTimed]_vars

(***************************************************************************)
(* The properties.                                                         *)
(***************************************************************************)
\* This run of main has filtered its table.
HasFiltered == pc = "done" /\ ~IsEmpty(df)
\* Row r satisfies every selectbox of s that is not 'All'.
MatchesBoxes(r, s) ==
    /\ s.status # All => r.status = s.status
    /\ s.customer # All => r.customer = s.customer
    /\ s.mrp_group # All => r.mrp_group = s.mrp_group
    /\ s.country # All => r.country = s.country
\* Row r has a ship date from the start to the end of the two-date range of s.
InRange(r, s) ==
    /\ r.ship_date # NaT
    /\ s.date_range[1] <= r.ship_date
    /\ r.ship_date <= s.date_range[2]
RowsOf(t) == {t.rows[i] : i \in 1..Len(t.rows)}

\* C1: with a two-date range selected, the filtered table is exactly the rows
\* of the loaded table, in their order, that satisfy every active selectbox
\* and lie in the range; no row failing one of them is kept, none satisfying
\* all of them is dropped.
C1_ExactConjunction ==
    (HasFiltered /\ Len(sel.date_range) = 2) =>
        /\ filtered_df.cols = df.cols
        /\ filtered_df.rows =
            SelectSeq(df.rows, LAMBDA r : MatchesBoxes(r, sel) /\ InRange(r, sel))
\* Two selectboxes are active, a row passes one of them and fails the other,
\* and another row passes everything.
C1_Witness ==
    /\ pc = "done"
    /\ Len(sel.date_range) = 2
    /\ sel.status # All
    /\ sel.customer # All
    /\ filtered_df.rows # <<>>
    /\ \E r \in RowsOf(df) : r.customer = sel.customer /\ r.status # sel.status
                            /\ InRange(r, sel)

\* C2: with every selectbox on 'All' and the range left at its default, the
\* filtered table has exactly the rows of the loaded table.
C2_NoOpKeepsAll ==
    (HasFiltered /\ HasDateWidget(df) /\ sel = DefaultSelection(df)) =>
        filtered_df.rows = df.rows

\* C3: filtering the filtered table again with the same widget values gives
\* the filtered table.
C3_Idempotent ==
    HasFiltered => ApplyFilter(filtered_df, sel) = filtered_df
\* A run of the filters, status and range among them, that dropped a row and
\* kept a row.
C3_Witness ==
    /\ pc = "done"
    /\ Len(sel.date_range) = 2
    /\ sel.status # All
    /\ Len(filtered_df.rows) >= 1
    /\ Len(filtered_df.rows) < Len(df.rows)

\* C4: the default range is the least and the greatest ship date of the
\* loaded table and is one of the ranges offered; with a range (start, end)
\* selected, a row that passes the selectboxes and whose ship date is start
\* or end is kept, and no kept row has a ship date outside [start, end].
C4_InclusiveRange ==
    /\ (~IsEmpty(df) /\ HasDateWidget(df)) =>
        /\ DefaultRange(df)[1] \in Values(df.rows, "ship_date") \ {NaT}
        /\ DefaultRange(df)[2] \in Values(df.rows, "ship_date") \ {NaT}
        /\ \A r \in RowsOf(df) : r.ship_date # NaT =>
                DefaultRange(df)[1] <= r.ship_date /\ r.ship_date <= DefaultRange(df)[2]
        /\ DefaultRange(df) \in DateRanges(df)
    /\ (HasFiltered /\ Len(sel.date_range) = 2) =>
        /\ \A r \in RowsOf(df) :
                (MatchesBoxes(r, sel) /\ r.ship_date \in {sel.date_range[1], sel.date_range[2]})
                    => r \in RowsOf(filtered_df)
        /\ \A r \in RowsOf(filtered_df) : InRange(r, sel)
        /\ \A r \in RowsOf(df) : ~InRange(r, sel) => r \notin RowsOf(filtered_df)
\* A row on the end of the range is kept and a row after the end is dropped.
C4_Witness ==
    /\ pc = "done"
    /\ Len(sel.date_range) = 2
    /\ \E r \in RowsOf(filtered_df) : r.ship_date = sel.date_range[2]
    /\ \E r \in RowsOf(df) : r.ship_date # NaT /\ r.ship_date > sel.date_range[2]

\* C5: a load of the delivery table that failed sends the query once, puts
\* the error message on the page and returns the empty table; main then warns
\* and returns: no widget is read, no filter applied, nothing of a tab drawn.
C5_FailedFetchStops ==
    /\ Len(fetchLog) = 2 => fetchLog[1] < fetchLog[2]
    /\ (pc # "idle" /\ dataCache.failed) =>
        /\ ErrDb \in ui.msgs
        /\ df = EmptyFrame
        /\ pc = "done"
        /\ WarnNoData \in ui.msgs
        /\ sel = NoSel
        /\ filtered_df = EmptyFrame
        /\ ui.shown = {}
        /\ ui.metrics = NoMetrics
        /\ ui.status_pie = {} /\ ui.monthly_bar = {}
\* The query was sent once, to a database that holds rows, and raised.
C5_Witness ==
    /\ pc = "done"
    /\ dataCache.failed
    /\ fetchLog = <<0>>
    /\ db # <<>>
    /\ ~statsCache.failed

\* No row of the loaded table satisfies the widget values.
MatchesNone ==
    \A r \in RowsOf(df) :
        ~(MatchesBoxes(r, sel) /\ (Len(sel.date_range) = 2 => InRange(r, sel)))
\* C6: when the widget values match no row of a non-empty table, main ends
\* without an exception, the four metrics are 0, the Projects tab shows its
\* notice and nothing is drawn from the filtered table.
C6_EmptyResultIsValid ==
    (~IsEmpty(df) /\ pc \in {"done", "raised"} /\ MatchesNone) =>
        /\ pc = "done"
        /\ ui.metrics = NoMetrics
        /\ "metrics" \in ui.shown
        /\ InfoNoMatch \in ui.msgs
        /\ ui.shown \cap FromFiltered = {}

\* C7: on a non-empty table whose ship_date column is absent or empty, main
\* ends normally or with an error that names the column.
C7_MissingDatesDegrade ==
    (~IsEmpty(df) /\ ("ship_date" \notin df.cols \/ Dated(df.rows) = <<>>)) =>
        (pc = "raised" => err = KeyErrorColumn)

\* C8: two delivery queries sent to the database are at least the cache
\* window apart, and no run of main gets a delivery table read from the
\* database more than the cache window ago.
C8_CacheWindow ==
    /\ Len(fetchLog) = 2 => fetchLog[2] - fetchLog[1] >= CacheTtl
    /\ (pc # "idle" /\ ~IsEmpty(df)) => now - dfAsOf <= CacheTtl

\* C9: when main has drawn its tabs, the delivery table and the three summary
\* tables have the columns and the rows the loaders returned, and the
\* filtered table is the one the filters give for the table and the widget
\* values.
C9_InputsUnchanged ==
    (pc = "done" /\ ~IsEmpty(df)) =>
        /\ df = returned.df
        /\ filtered_df = ApplyFilter(returned.df, sel)
        /\ stats.status_stats.cols = returned.stats.status_stats.cols
        /\ stats.customer_stats.cols = returned.stats.customer_stats.cols
        /\ stats.monthly_stats.cols = returned.stats.monthly_stats.cols
        /\ stats.status_stats.rows = returned.stats.status_stats.rows
        /\ stats.customer_stats.rows = returned.stats.customer_stats.rows
        /\ stats.monthly_stats.rows = returned.stats.monthly_stats.rows

\* The number of rows of table t with status name.
Having(t, name) == Cardinality({i \in 1..Len(t.rows) : t.rows[i].status = name})
MetricsFromFiltered ==
    /\ ui.metrics.total_projects = Len(filtered_df.rows)
    /\ ui.metrics.in_stock = Having(filtered_df, "In stock")
    /\ ui.metrics.released = Having(filtered_df, "Released")
    /\ ui.metrics.planned = Having(filtered_df, "Planned")
    /\ ui.metrics.in_stock + ui.metrics.released + ui.metrics.planned
            <= ui.metrics.total_projects
====
